---- MODULE Spec2Model ----
(***************************************************************************)
(* Model of src/streamlit/src/app.py, the Titanic Dataset Explorer.        *)
(*                                                                         *)
(* The script is run from top to bottom on start-up and again after every  *)
(* widget interaction.  A run reads the widgets (lines 23-66), builds      *)
(* filtered_df from df (lines 69-93) and computes the metrics and the      *)
(* grouped counts from filtered_df (lines 99-155).  Each action below is   *)
(* one interaction followed by the whole run.                              *)
(*                                                                         *)
(* Representation.                                                         *)
(*   - A DataFrame is a sequence of rows; a row is a record of its columns *)
(*     plus "index", the pandas index label it keeps through filtering.    *)
(*   - A nullable value is a set of at most one element: NaN is {} and a   *)
(*     present value v is {v}.                                             *)
(*   - Text that is searched (who, class, embark_town, deck, text_search)  *)
(*     is a sequence of one-character strings.                             *)
(*   - Ages are held in units of 1/AgeUnit year, so that int() of a        *)
(*     fractional age (lines 31-33) truncates.  Fares are whole numbers.   *)
(*   - A float result is held as the exact fraction <<n, d>> in lowest     *)
(*     terms; 0/0 is NaN.                                                  *)
(*   - df0 is a history variable: the frame loaded at start-up.            *)
(*                                                                         *)
(* Chart rendering and the statistics tab (lines 114-199) are not          *)
(* modelled beyond the table survival_by_sex that line 149 builds.         *)
(***************************************************************************)
EXTENDS Integers, Sequences, FiniteSets, TLC

VARIABLES df, df0, selected_class, age_min, age_max, selected_sex,
          selected_port, survivors_only, min_fare, text_search,
          filtered_df, survival_rate, avg_age, avg_fare, survival_by_sex

vars == <<df, df0, selected_class, age_min, age_max, selected_sex,
          selected_port, survivors_only, min_fare, text_search,
          filtered_df, survival_rate, avg_age, avg_fare, survival_by_sex>>

(* ------------------------------ bounds -------------------------------- *)

\* Longest base table.
MaxRows == 3

\* Ages are held in 1/AgeUnit years.
AgeUnit == 2

(* --------------------------- nullable values -------------------------- *)

NaN == {}

Some(v) == {v}

isna(x) == x = {}

Value(x) == CHOOSE v \in x : TRUE

(* -------------------------------- text -------------------------------- *)

UpperCase == <<"A","B","C","D","E","F","G","H","I","J","K","L","M",
               "N","O","P","Q","R","S","T","U","V","W","X","Y","Z">>

LowerCase == <<"a","b","c","d","e","f","g","h","i","j","k","l","m",
               "n","o","p","q","r","s","t","u","v","w","x","y","z">>

\* str.lower() of one character.
LowerOf == [i \in 1..26 |-> LowerCase[i]]

Lower(c) ==
    LET up == { i \in 1..26 : UpperCase[i] = c }
    IN  IF up = {} THEN c ELSE LowerOf[CHOOSE i \in up : TRUE]

casefold(s) == [i \in 1..Len(s) |-> Lower(s[i])]

\* pat occurs in s as a run of consecutive characters.
Contains(s, pat) ==
    \E i \in 0..(Len(s) - Len(pat)) : SubSeq(s, i + 1, i + Len(pat)) = pat

\* Series.astype(str): every element becomes its str(); str(NaN) is "nan".
astype_str(x) == IF isna(x) THEN Some(<<"n","a","n">>) ELSE x

\* Series.str.contains(pat, case=False, na=na) on one element.  The search
\* texts of the model are letters only, for which the regular-expression
\* search pandas performs is the substring search.
str_contains(x, pat, na) ==
    IF isna(x) THEN na ELSE Contains(casefold(Value(x)), casefold(pat))

(* ------------------------------ the data ------------------------------ *)

First == <<"F","i","r","s","t">>

Second == <<"S","e","c","o","n","d">>

Third == <<"T","h","i","r","d">>

Southampton == <<"S","o","u","t","h","a","m","p","t","o","n">>

Cherbourg == <<"C","h","e","r","b","o","u","r","g">>

Queenstown == <<"Q","u","e","e","n","s","t","o","w","n">>

Man == <<"m","a","n">>

Woman == <<"w","o","m","a","n">>

Child == <<"c","h","i","l","d">>

\* Ages of the records, in 1/AgeUnit years: an infant under one year old (the
\* titanic table's youngest is 0.42), and whole numbers of years.
Infant == AgeUnit \div 2

Years(n) == n * AgeUnit

\* The passenger records base tables are made of: the shapes of row the
\* titanic dataset holds (a missing age, a missing deck, a missing port and
\* town, a fractional age, a zero fare).
Passengers ==
    << [survived |-> 0, pclass |-> 3, sex |-> "male", age |-> Some(Years(1)),
        fare |-> 0, embarked |-> Some("S"), class |-> Some(Third),
        who |-> Some(Man), deck |-> NaN, embark_town |-> Some(Southampton)],
       [survived |-> 1, pclass |-> 1, sex |-> "female", age |-> Some(Years(1)),
        fare |-> 1, embarked |-> Some("C"), class |-> Some(First),
        who |-> Some(Woman), deck |-> Some(<<"C">>),
        embark_town |-> Some(Cherbourg)],
       [survived |-> 1, pclass |-> 1, sex |-> "female", age |-> Some(Years(1)),
        fare |-> 1, embarked |-> NaN, class |-> Some(First),
        who |-> Some(Woman), deck |-> Some(<<"B">>), embark_town |-> NaN],
       [survived |-> 0, pclass |-> 3, sex |-> "male", age |-> NaN,
        fare |-> 1, embarked |-> Some("S"), class |-> Some(Third),
        who |-> Some(Man), deck |-> NaN, embark_town |-> Some(Southampton)],
       [survived |-> 1, pclass |-> 3, sex |-> "male", age |-> Some(Infant),
        fare |-> 1, embarked |-> Some("C"), class |-> Some(Third),
        who |-> Some(Child), deck |-> NaN, embark_town |-> Some(Cherbourg)],
       [survived |-> 0, pclass |-> 1, sex |-> "female", age |-> Some(Years(1)),
        fare |-> 1, embarked |-> Some("S"), class |-> Some(First),
        who |-> Some(Woman), deck |-> Some(<<"C">>),
        embark_town |-> Some(Southampton)],
       [survived |-> 0, pclass |-> 2, sex |-> "male", age |-> Some(Years(1)),
        fare |-> 1, embarked |-> Some("Q"), class |-> Some(Second),
        who |-> Some(Man), deck |-> NaN, embark_town |-> Some(Queenstown)] >>

\* The frame load_dataset returns for a sequence of records: a RangeIndex.
DataFrame(recs) ==
    [i \in 1..Len(recs) |-> recs[i] @@ [index |-> i - 1]]

\* The records of Passengers at the positions in S, in their order.
Pick(S) ==
    [i \in 1..Cardinality(S) |->
        Passengers[CHOOSE x \in S : Cardinality({ y \in S : y < x }) = i - 1]]

\* Base tables: at most MaxRows of the records, the oldest of them a whole
\* number of years old, as the oldest passenger of the titanic table is (80.0),
\* so that the slider's max_value int(df['age'].max()) is that age.
BaseTables ==
    { DataFrame(Pick(S)) : S \in
        { T \in SUBSET (1..Len(Passengers)) :
            /\ T # {}
            /\ Cardinality(T) <= MaxRows
            /\ \E i \in T :
                  /\ ~isna(Passengers[i].age)
                  /\ Value(Passengers[i].age) % AgeUnit = 0
                  /\ \A j \in T : isna(Passengers[j].age)
                        \/ Value(Passengers[j].age) <= Value(Passengers[i].age) } }

\* Texts typed into the search box.
SearchTexts ==
    { <<>>, <<"s","o","u","t","h">>, <<"n","a","n">>, <<"C">> }

(* ----------------------- the sidebar's ranges -------------------------- *)

Ages(frame) ==
    { Value(frame[i].age) : i \in { j \in 1..Len(frame) : ~isna(frame[j].age) } }

SetMin(S) == CHOOSE m \in S : \A x \in S : m <= x

SetMax(S) == CHOOSE m \in S : \A x \in S : x <= m

\* int() of a non-negative age: the whole years in it.
int(a) == a \div AgeUnit

\* options of the class multiselect: sorted(df['pclass'].unique()).
pclass_options(frame) == { frame[i].pclass : i \in 1..Len(frame) }

\* min_value and max_value of the age slider.
slider_min(frame) == int(SetMin(Ages(frame)))

slider_max(frame) == int(SetMax(Ages(frame)))

\* options of the port selectbox: "All" and the ports present.
port_options(frame) ==
    {"All"} \cup { Value(frame[i].embarked) :
                     i \in { j \in 1..Len(frame) : ~isna(frame[j].embarked) } }

sex_options == {"All", "male", "female"}

\* max_value of the fare input: float(df['fare'].max()).
max_fare(frame) == SetMax({ frame[i].fare : i \in 1..Len(frame) })

(* --------------------------- the filter ------------------------------- *)

\* BoolIndex that stops one row short of the end of frame.
BoolIndexDropLast(frame, mask) ==
    LET F[i \in 0..Len(frame)] ==
            IF i = 0 THEN <<>>
            ELSE IF mask[i] /\ i < Len(frame) THEN Append(F[i - 1], frame[i])
            ELSE F[i - 1]
    IN  F[Len(frame)]

\* frame[mask]: the rows whose mask entry is true, in the frame's order, each
\* with the index label it has in frame.
BoolIndex(frame, mask) ==
    LET F[i \in 0..Len(frame)] ==
            IF i = 0 THEN <<>>
            ELSE IF mask[i] THEN Append(F[i - 1], frame[i])
            ELSE F[i - 1]
    IN  F[Len(frame)]

\* isin that reads an empty selection as no restriction.
isinOrNone(v, values) == values = {} \/ v \in values

\* Series.isin(values) on one element.
isin(v, values) == v \in values

\* df['age'] >= age_min, df['age'] <= age_max on one element: a comparison
\* with NaN is False.
age_ge(x, years) == ~isna(x) /\ Value(x) >= years * AgeUnit

\* age_le with the upper bound left out of the range.
age_leStrict(x, years) == ~isna(x) /\ Value(x) < years * AgeUnit

age_le(x, years) == ~isna(x) /\ Value(x) <= years * AgeUnit

\* Series == value on one nullable element: NaN equals nothing.
eq(x, v) == ~isna(x) /\ Value(x) = v

\* BaseMask that lets a row without an age through the age bounds.
BaseMaskKeepNaN(frame, classes, amin, amax, fare) ==
    [i \in 1..Len(frame) |->
        /\ isin(frame[i].pclass, classes)
        /\ (isna(frame[i].age)
              \/ (age_ge(frame[i].age, amin) /\ age_le(frame[i].age, amax)))
        /\ frame[i].fare >= fare]

\* The mask of lines 70-73.
BaseMask(frame, classes, amin, amax, fare) ==
    [i \in 1..Len(frame) |->
        /\ isin(frame[i].pclass, classes)
        /\ age_ge(frame[i].age, amin)
        /\ age_le(frame[i].age, amax)
        /\ frame[i].fare >= fare]

\* Lines 76-77.
SexStage(frame, sex) ==
    IF sex # "All"
    THEN BoolIndex(frame, [i \in 1..Len(frame) |-> frame[i].sex = sex])
    ELSE frame

\* Lines 79-80.
PortStage(frame, port) ==
    IF port # "All"
    THEN BoolIndex(frame, [i \in 1..Len(frame) |-> eq(frame[i].embarked, port)])
    ELSE frame

\* SurvivorsStage that ignores the checkbox.
SurvivorsStageOff(frame, only) == frame

\* Lines 82-83.
SurvivorsStage(frame, only) ==
    IF only
    THEN BoolIndex(frame, [i \in 1..Len(frame) |-> frame[i].survived = 1])
    ELSE frame

\* The mask of lines 87-92.
TextMask(frame, text) ==
    [i \in 1..Len(frame) |->
        \/ str_contains(astype_str(frame[i].who), text, FALSE)
        \/ str_contains(astype_str(frame[i].class), text, FALSE)
        \/ str_contains(astype_str(frame[i].embark_town), text, FALSE)
        \/ str_contains(astype_str(frame[i].deck), text, FALSE)]

\* TextStage that concatenates the matches of the four columns instead of
\* or-ing their masks.
TextStageConcat(frame, text) ==
    IF text # <<>>
    THEN BoolIndex(frame, [i \in 1..Len(frame) |->
                str_contains(astype_str(frame[i].who), text, FALSE)])
         \o BoolIndex(frame, [i \in 1..Len(frame) |->
                str_contains(astype_str(frame[i].class), text, FALSE)])
         \o BoolIndex(frame, [i \in 1..Len(frame) |->
                str_contains(astype_str(frame[i].embark_town), text, FALSE)])
         \o BoolIndex(frame, [i \in 1..Len(frame) |->
                str_contains(astype_str(frame[i].deck), text, FALSE)])
    ELSE frame

\* Lines 85-93.
TextStage(frame, text) ==
    IF text # <<>>
    THEN BoolIndex(frame, TextMask(frame, text))
    ELSE frame

\* filtered_df before the text search: lines 69-83.
before_search(frame, classes, amin, amax, sex, port, only, fare) ==
    SurvivorsStage(
        PortStage(
            SexStage(
                BoolIndex(frame, BaseMask(frame, classes, amin, amax, fare)),
                sex),
            port),
        only)

\* filtered_df: lines 69-93.
apply_filters(frame, classes, amin, amax, sex, port, only, fare, text) ==
    TextStage(before_search(frame, classes, amin, amax, sex, port, only, fare),
              text)

\* SourceFrame that narrows the frame the previous run showed.
SourceFrameShown(base, shown) == shown

\* The frame line 69 indexes: df, the frame line 17 loads in this run, never
\* the frame an earlier run showed.
SourceFrame(base, shown) == base

(* --------------------------- the metrics ------------------------------ *)

RECURSIVE GCD(_, _)
GCD(a, b) == IF b = 0 THEN a ELSE GCD(b, a % b)

\* The float n / d: NaN for 0 / 0, else the fraction in lowest terms.
Ratio(n, d) ==
    IF d = 0 THEN NaN
    ELSE LET g == GCD(n, d) IN Some(<<n \div g, d \div g>>)

\* frame[col]: one column of frame as a series.
Column(frame, col) == [i \in 1..Len(frame) |-> frame[i][col]]

\* Series.sum() of a series of integers.
RECURSIVE Sum(_)
Sum(xs) == IF xs = <<>> THEN 0 ELSE Head(xs) + Sum(Tail(xs))

\* The values of the elements of a nullable series that are not NaN.
NotNa(x) == ~isna(x)

dropna(xs) ==
    LET kept == SelectSeq(xs, NotNa)
    IN  [i \in 1..Len(kept) |-> Value(kept[i])]

\* Line 103: filtered_df['survived'].sum() / len(filtered_df) * 100.
SurvivalRate(frame) ==
    Ratio(100 * Sum(Column(frame, "survived")), Len(frame))

\* Line 107: filtered_df['age'].mean(), NaN skipped, in years.
AvgAge(frame) ==
    LET ages == dropna(Column(frame, "age"))
    IN  Ratio(Sum(ages), AgeUnit * Len(ages))

\* Line 111: filtered_df['fare'].mean().
AvgFare(frame) == Ratio(Sum(Column(frame, "fare")), Len(frame))

\* Line 149: groupby('sex')['survived'].value_counts().unstack().  A row for
\* each sex of frame, a column for each survived value of frame, and NaN in
\* the cell of a pair that no row has.
SurvivalBySex(frame) ==
    LET sexes == { frame[i].sex : i \in 1..Len(frame) }
        outcomes == { frame[i].survived : i \in 1..Len(frame) }
        n(s, v) == Cardinality({ i \in 1..Len(frame) :
                                   frame[i].sex = s /\ frame[i].survived = v })
    IN  [s \in sexes |->
            [v \in outcomes |-> IF n(s, v) > 0 THEN Some(n(s, v)) ELSE NaN]]

(* ------------------------ the state machine --------------------------- *)

\* One run of the script with the widget values of the next state.
RunScript ==
    LET f == apply_filters(SourceFrame(df, filtered_df), selected_class',
                           age_min', age_max', selected_sex', selected_port',
                           survivors_only', min_fare', text_search')
    IN  /\ filtered_df' = f
        /\ survival_rate' = SurvivalRate(filtered_df')
        /\ avg_age' = AvgAge(filtered_df')
        /\ avg_fare' = AvgFare(filtered_df')
        /\ survival_by_sex' = SurvivalBySex(filtered_df')
        /\ UNCHANGED <<df, df0>>

\* The first run: every widget at its default.
Init ==
    /\ df \in BaseTables
    /\ df0 = df
    /\ selected_class = pclass_options(df)
    /\ age_min = slider_min(df)
    /\ age_max = slider_max(df)
    /\ selected_sex = "All"
    /\ selected_port = "All"
    /\ survivors_only = FALSE
    /\ min_fare = 0
    /\ text_search = <<>>
    /\ filtered_df = apply_filters(df, selected_class, age_min, age_max,
                                   selected_sex, selected_port,
                                   survivors_only, min_fare, text_search)
    /\ survival_rate = SurvivalRate(filtered_df)
    /\ avg_age = AvgAge(filtered_df)
    /\ avg_fare = AvgFare(filtered_df)
    /\ survival_by_sex = SurvivalBySex(filtered_df)

\* Lines 23-27.
SelectClass ==
    /\ \E s \in SUBSET pclass_options(df) :
          s # selected_class /\ selected_class' = s
    /\ UNCHANGED <<age_min, age_max, selected_sex, selected_port,
                   survivors_only, min_fare, text_search>>
    /\ RunScript

\* Lines 29-34.
MoveAgeSlider ==
    /\ \E lo \in slider_min(df)..slider_max(df) :
          \E hi \in lo..slider_max(df) :
             /\ <<lo, hi>> # <<age_min, age_max>>
             /\ age_min' = lo
             /\ age_max' = hi
    /\ UNCHANGED <<selected_class, selected_sex, selected_port,
                   survivors_only, min_fare, text_search>>
    /\ RunScript

\* Lines 36-40.
SelectSex ==
    /\ \E s \in sex_options : s # selected_sex /\ selected_sex' = s
    /\ UNCHANGED <<selected_class, age_min, age_max, selected_port,
                   survivors_only, min_fare, text_search>>
    /\ RunScript

\* Lines 42-46.
SelectPort ==
    /\ \E p \in port_options(df) : p # selected_port /\ selected_port' = p
    /\ UNCHANGED <<selected_class, age_min, age_max, selected_sex,
                   survivors_only, min_fare, text_search>>
    /\ RunScript

\* Lines 48-51.
ToggleSurvivorsOnly ==
    /\ survivors_only' = ~survivors_only
    /\ UNCHANGED <<selected_class, age_min, age_max, selected_sex,
                   selected_port, min_fare, text_search>>
    /\ RunScript

\* Lines 53-59.
SetMinFare ==
    /\ \E f \in 0..max_fare(df) : f # min_fare /\ min_fare' = f
    /\ UNCHANGED <<selected_class, age_min, age_max, selected_sex,
                   selected_port, survivors_only, text_search>>
    /\ RunScript

\* Lines 62-66.
TypeSearchText ==
    /\ \E t \in SearchTexts : t # text_search /\ text_search' = t
    /\ UNCHANGED <<selected_class, age_min, age_max, selected_sex,
                   selected_port, survivors_only, min_fare>>
    /\ RunScript

Next ==
    \/ SelectClass
    \/ MoveAgeSlider
    \/ SelectSex
    \/ SelectPort
    \/ ToggleSurvivorsOnly
    \/ SetMinFare
    \/ TypeSearchText

Spec == Init /\ [][Next]_vars

(* ------------------------------ claims -------------------------------- *)

\* The filter of the current widget values applied to frame.
Refilter(frame) ==
    apply_filters(frame, selected_class, age_min, age_max, selected_sex,
                  selected_port, survivors_only, min_fare, text_search)

\* The age slider spans its whole range.
FullAgeRange == age_min = slider_min(df) /\ age_max = slider_max(df)

\* Every widget is at its widest setting.
Widest ==
    /\ selected_class = pclass_options(df)
    /\ FullAgeRange
    /\ selected_sex = "All"
    /\ selected_port = "All"
    /\ ~survivors_only
    /\ min_fare = 0
    /\ text_search = <<>>

\* C1: the filtered table is a subsequence of the base table: every row of
\* it is the base-table row of its index label, and the index labels strictly
\* increase (so no row repeats and the base table's order is kept).
C1_Subsequence ==
    /\ \A k \in 1..Len(filtered_df) :
          /\ filtered_df[k].index + 1 \in 1..Len(df)
          /\ filtered_df[k] = df[filtered_df[k].index + 1]
    /\ \A k \in 1..Len(filtered_df) : \A l \in 1..Len(filtered_df) :
          k < l => filtered_df[k].index < filtered_df[l].index

\* A search has kept two rows or more and dropped a row.
C1_Witness ==
    /\ text_search # <<>>
    /\ Len(filtered_df) >= 2
    /\ Len(filtered_df) < Len(df)

\* C2 as stated: at the widest settings the filtered table is the whole base
\* table.
C2_WidestReturnsAll == Widest => filtered_df = df

\* C2 amended: at the widest settings the filtered table is exactly the rows
\* of the base table that have an age.
C2_WidestReturnsAged ==
    Widest =>
        LET aged(r) == ~isna(r.age)
        IN  filtered_df = SelectSeq(df, aged)

\* The widest settings over a base table with an ageless row, some row shown.
C2_Witness ==
    /\ Widest
    /\ \E i \in 1..Len(df) : isna(df[i].age)
    /\ Len(filtered_df) >= 1

\* C3: filtering the filtered table again with the same widget values gives
\* the filtered table back.
C3_Idempotent == Refilter(filtered_df) = filtered_df

\* Several filter steps are active, a row is shown and a row is dropped.
C3_Witness ==
    /\ selected_sex # "All"
    /\ text_search # <<>>
    /\ Len(filtered_df) >= 1
    /\ Len(filtered_df) < Len(df)

\* C4: on an empty filtered table no summary metric is NaN.
C4_EmptyIsNotNaN ==
    Len(filtered_df) = 0 =>
        /\ ~isna(survival_rate)
        /\ ~isna(avg_age)
        /\ ~isna(avg_fare)

\* C5: under a non-empty search text the rows kept are exactly the rows whose
\* who, class, embark_town or deck has a value that contains the text, whatever
\* the case of the letters; a column without a value matches nothing.
C5_SearchMatchesValues ==
    text_search # <<>> =>
        LET has(x) == ~isna(x) /\ Contains(casefold(Value(x)), casefold(text_search))
            matches(r) == has(r.who) \/ has(r.class) \/ has(r.embark_town) \/ has(r.deck)
        IN  filtered_df =
                SelectSeq(before_search(df, selected_class, age_min, age_max,
                                        selected_sex, selected_port,
                                        survivors_only, min_fare),
                          matches)

\* C6: with no passenger class selected the filtered table is empty.
C6_NoClassIsEmpty == selected_class = {} => Len(filtered_df) = 0

\* No class is selected, every other widget is at its widest setting, and the
\* base table has rows that those settings let through.
C6_Witness ==
    /\ selected_class = {}
    /\ FullAgeRange
    /\ selected_sex = "All"
    /\ selected_port = "All"
    /\ ~survivors_only
    /\ min_fare = 0
    /\ text_search = <<>>
    /\ \E i \in 1..Len(df) : ~isna(df[i].age)
    /\ filtered_df = <<>>

\* C7: no row of the filtered table is without an age.
C7_NoNullAge == \A k \in 1..Len(filtered_df) : ~isna(filtered_df[k].age)

\* The widest settings, a base-table row without an age, and rows shown.
C7_Witness ==
    /\ Widest
    /\ \E i \in 1..Len(df) : isna(df[i].age)
    /\ Len(filtered_df) >= 2

\* C8: survival_by_sex holds a count for each sex of the filtered table and
\* each of the survived values 0 and 1, zero where no row has the pair.
C8_ZeroCounts ==
    \A k \in 1..Len(filtered_df) : \A v \in {0, 1} :
        LET s == filtered_df[k].sex
            n == Cardinality({ i \in 1..Len(filtered_df) :
                     filtered_df[i].sex = s /\ filtered_df[i].survived = v })
        IN  /\ s \in DOMAIN survival_by_sex
            /\ v \in DOMAIN survival_by_sex[s]
            /\ survival_by_sex[s][v] = Some(n)

\* C9: with class 1, female, survivors-only, every port, minimum fare 0, no
\* search text and the whole age range, every row shown is a first-class
\* female survivor; and whenever survivors-only is on and a row is shown the
\* survival rate is exactly 100.
C9_SurvivorsOnly ==
    /\ ( /\ selected_class = {1}
         /\ FullAgeRange
         /\ selected_sex = "female"
         /\ selected_port = "All"
         /\ survivors_only
         /\ min_fare = 0
         /\ text_search = <<>> )
       => \A k \in 1..Len(filtered_df) :
             /\ filtered_df[k].pclass = 1
             /\ filtered_df[k].sex = "female"
             /\ filtered_df[k].survived = 1
    /\ (survivors_only /\ Len(filtered_df) > 0)
       => survival_rate = Some(<<100, 1>>)

\* The scenario's settings over a base table that holds a first-class woman
\* who did not survive, with a row shown.
C9_Witness ==
    /\ selected_class = {1}
    /\ FullAgeRange
    /\ selected_sex = "female"
    /\ selected_port = "All"
    /\ survivors_only
    /\ min_fare = 0
    /\ text_search = <<>>
    /\ \E i \in 1..Len(df) :
          df[i].pclass = 1 /\ df[i].sex = "female" /\ df[i].survived = 0
            /\ ~isna(df[i].age)
    /\ Len(filtered_df) >= 1

\* C10: the base table is the one loaded at start-up, and the filtered table
\* is the filter of the current widget values applied to it.
C10_FullRecompute == df = df0 /\ filtered_df = Refilter(df0)

\* Two widgets or more have been changed, a row is shown and a row is dropped.
C10_Witness ==
    /\ selected_class # pclass_options(df)
    /\ selected_sex # "All"
    /\ Len(filtered_df) >= 1
    /\ Len(filtered_df) < Len(df)

====
